---- MODULE Spec2Model ----
(***************************************************************************)
(* The plugin manager of eodag (src/eodag/plugins/manager.py): the         *)
(* provider configuration store, the product-type index, the cache of      *)
(* built plugins, and the operations that read and change them.            *)
(*                                                                         *)
(* Every operation is translated statement by statement into steps; a     *)
(* call occupies a slot of `calls` from its first step to its return.      *)
(* Under Spec one caller drives the manager: a call runs to its return     *)
(* (or, for the generator of get_search_plugins, to its next yield)        *)
(* before anything else happens.  Under SpecConc the calls in the slots    *)
(* are threads whose steps interleave freely.                              *)
(***************************************************************************)
EXTENDS Integers, Sequences, FiniteSets, TLC

(***************************************************************************)
(* Bounds of the model.                                                    *)
(***************************************************************************)
MaxPriority == 2
NSlots == 2
MaxCalls == 3

(***************************************************************************)
(* Values.  None is written per type: TLC compares only like with like.    *)
(***************************************************************************)
NonePriority == 0 - 1
NoPlugin == 0

GENERIC_PRODUCT_TYPE == "GENERIC_PRODUCT_TYPE"

Topics == {"Search", "Api", "Download", "Authentication"}

\* A capability configuration (PluginConfig): the plugin type it names and
\* the priority and products the manager propagates onto it.
NoConf == [present |-> FALSE, type |-> "", priority |-> NonePriority, products |-> {}]

PluginConfig(type) ==
  [present |-> TRUE, type |-> type, priority |-> NonePriority, products |-> {}]

\* A provider configuration (ProviderConfig).  products = {} stands for a
\* products attribute that is absent or empty, group = "" for no group.
ProviderConfig(name, group, priority, products, search, api, download, auth) ==
  [name |-> name, group |-> group, priority |-> priority, products |-> products,
   search |-> search, api |-> api, download |-> download, auth |-> auth]

\* The plugin classes registered per topic (the plugins attribute of each
\* topic's base class, filled by the entry points loaded in __init__).
RegisteredPlugins(topic) ==
  CASE topic = "Search" -> {"QueryStringSearch"}
    [] topic = "Api" -> {"UsgsApi"}
    [] topic = "Download" -> {"HTTPDownload"}
    [] topic = "Authentication" -> {"GenericAuth"}
    [] topic = "Crunch" -> {"FilterDate"}
    [] OTHER -> {}

(***************************************************************************)
(* The provider configurations the manager is given, at construction and   *)
(* by rebuild(providers_config).  Each is an ordered mapping: a sequence   *)
(* of provider configurations in registration order.                       *)
(***************************************************************************)
ConfMain ==
  << ProviderConfig("A", "G", 1, {"optical", "radar"},
                    PluginConfig("QueryStringSearch"), NoConf, NoConf, NoConf),
     ProviderConfig("B", "", NonePriority, {"optical", GENERIC_PRODUCT_TYPE},
                    NoConf, PluginConfig("UsgsApi"), NoConf, NoConf),
     ProviderConfig("C", "G", 1, {},
                    PluginConfig("QueryStringSearch"), NoConf, NoConf, NoConf) >>

ConfAlt ==
  << ProviderConfig("A", "G", 1, {"optical"},
                    PluginConfig("QueryStringSearch"), PluginConfig("UsgsApi"),
                    PluginConfig("HTTPDownload"), NoConf),
     ProviderConfig("B", "", 1, {"optical"},
                    NoConf, NoConf, NoConf, NoConf) >>

ConfAuth ==
  << ProviderConfig("B", "", 0, {"radar"},
                    NoConf, PluginConfig("NotInstalledApi"),
                    NoConf, PluginConfig("GenericAuth")) >>

Configurations == << ConfMain, ConfAlt, ConfAuth >>

ProviderNames == {"A", "B", "C"}

\* What callers ask for: "" stands for an argument left at None.
RequestedProductTypes == {"", "optical", "radar", "unknown"}
RequestedProviders == {"", "B", "G"}
Priorities == 0 .. MaxPriority
RequestedCrunchers == {"FilterDate", "NotACruncher"}

(***************************************************************************)
(* Sequences.                                                              *)
(***************************************************************************)
Range(seq) == { seq[i] : i \in 1 .. Len(seq) }

SelectSeqBy(seq, keep) ==
  LET F[i \in 0 .. Len(seq)] ==
        IF i = 0 THEN << >>
        ELSE IF seq[i] \in keep THEN Append(F[i - 1], seq[i]) ELSE F[i - 1]
  IN F[Len(seq)]

IndexOf(seq, x) == CHOOSE i \in 1 .. Len(seq) : seq[i] = x

\* The ProviderConfig objects of one loaded configuration, by name.
LoadConf(conf) ==
  [n \in { conf[i].name : i \in 1 .. Len(conf) } |->
     conf[CHOOSE i \in 1 .. Len(conf) : conf[i].name = n]]

Names(conf) == [i \in 1 .. Len(conf) |-> conf[i].name]

\* A reference to a ProviderConfig object: generation g of the loaded
\* configurations, provider n.
Ref(g, n) == [g |-> g, n |-> n]

Deref(cf, r) == cf[r.g][r.n]

\* The least positive number not in `used`: a new identity.
Fresh(used) == CHOOSE i \in 1 .. Cardinality(used) + 1 :
                 i \notin used /\ \A j \in 1 .. i - 1 : j \in used

(***************************************************************************)
(* list.sort(key=attrgetter("priority"), reverse=True) and sorted(...):    *)
(* a stable sort on descending priority; elements of equal priority keep   *)
(* the order they had.                                                     *)
(***************************************************************************)
InsertByPriority(sorted, r, cf) ==
  LET k == Cardinality({ i \in 1 .. Len(sorted) :
                           Deref(cf, sorted[i]).priority >= Deref(cf, r).priority })
  IN SubSeq(sorted, 1, k) \o << r >> \o SubSeq(sorted, k + 1, Len(sorted))

\* The sort of line 225 without reverse=True.
SortAscending(list, cf) ==
  LET G[i \in 0 .. Len(list)] ==
        IF i = 0 THEN << >>
        ELSE LET k == Cardinality({ j \in 1 .. Len(G[i - 1]) :
                        Deref(cf, G[i - 1][j]).priority <= Deref(cf, list[i]).priority })
             IN SubSeq(G[i - 1], 1, k) \o << list[i] >>
                  \o SubSeq(G[i - 1], k + 1, Len(G[i - 1]))
  IN G[Len(list)]

SortByPriority(list, cf) ==
  LET F[i \in 0 .. Len(list)] ==
        IF i = 0 THEN << >> ELSE InsertByPriority(F[i - 1], list[i], cf)
  IN F[Len(list)]

\* Comparing None with a number raises TypeError; a sort of two or more
\* elements compares every one of them.
SortRaises(list, cf) ==
  /\ Len(list) >= 2
  /\ \E i \in 1 .. Len(list) : Deref(cf, list[i]).priority = NonePriority

(***************************************************************************)
(* build_product_type_to_provider_config_map, one pass of its loop over    *)
(* the providers (lines 145-165), on the store's keys `keys`, the          *)
(* ProviderConfig objects `cf` and the index `idx`.                        *)
(***************************************************************************)
\* The pass without lines 146-152: a provider without products stays.
BuildProviderKeepEmpty(st, g, provider) ==
  LET c == st.confs[g][provider]
      ref == Ref(g, provider)
      cf1 == IF c.priority = NonePriority
             THEN [st.confs EXCEPT ![g][provider].priority = 0]
             ELSE st.confs
      idx1 == [pt \in DOMAIN st.index \cup c.products |->
                 IF pt \in c.products
                 THEN SortByPriority(
                        Append(IF pt \in DOMAIN st.index
                               THEN st.index[pt] ELSE << >>, ref), cf1)
                 ELSE st.index[pt]]
  IN [st EXCEPT !.confs = cf1, !.index = idx1]

\* The pass without lines 155-156: a priority that is not set stays so.
BuildProviderNoDefault(st, g, provider) ==
  LET c == st.confs[g][provider]
      ref == Ref(g, provider)
  IN IF c.products = {}
     THEN [st EXCEPT !.keys = SelectSeqBy(st.keys, Range(st.keys) \ {provider})]
     ELSE [st EXCEPT !.index =
             [pt \in DOMAIN st.index \cup c.products |->
                IF pt \in c.products
                THEN SortByPriority(
                       Append(IF pt \in DOMAIN st.index
                              THEN st.index[pt] ELSE << >>, ref), st.confs)
                ELSE st.index[pt]]]

BuildProvider(st, g, provider) ==
  LET c == st.confs[g][provider]
      ref == Ref(g, provider)
  IN IF c.products = {}
     THEN [st EXCEPT !.keys = SelectSeqBy(st.keys, Range(st.keys) \ {provider})]
     ELSE LET cf1 == IF c.priority = NonePriority
                     THEN [st.confs EXCEPT ![g][provider].priority = 0]
                     ELSE st.confs
              idx1 == [pt \in DOMAIN st.index \cup c.products |->
                         IF pt \in c.products
                         THEN SortByPriority(
                                Append(IF pt \in DOMAIN st.index
                                       THEN st.index[pt] ELSE << >>, ref), cf1)
                         ELSE st.index[pt]]
          IN [st EXCEPT !.confs = cf1, !.index = idx1]

\* The whole loop, on a store whose keys are all present.
BuildMap(keys, cf, g) ==
  LET F[i \in 0 .. Len(keys)] ==
        IF i = 0 THEN [keys |-> keys, confs |-> cf, index |-> << >>]
        ELSE BuildProvider(F[i - 1], g, keys[i])
  IN F[Len(keys)]


(***************************************************************************)
(* State.                                                                  *)
(*   providers_config   the store: which loaded configuration it is (gen)  *)
(*                      and its keys in insertion order                    *)
(*   confs              the ProviderConfig objects, by the generation of   *)
(*                      the configuration they were loaded with; the       *)
(*                      store, the index and running calls refer to them   *)
(*                      by Ref.  Objects nothing refers to are dropped.    *)
(*   product_type_to_provider_config_map   the index                      *)
(*   built_plugins_cache   the cache, a dict in insertion order: entries   *)
(*                      [key |-> <<provider, topic>>, val |-> plugin]      *)
(*   calls              the calls in progress, one per slot: the call, its *)
(*                      local variables, and as history what it yielded    *)
(*                      (yielded), the candidates it sorted with their     *)
(*                      priorities then (cands), what its product-type     *)
(*                      lookups found (lookup), and whether it read the    *)
(*                      index or the cache in the middle of a rebuild      *)
(*                      (torn)                                             *)
(*   sched              "caller": one caller, calls do not overlap;        *)
(*                      "threads": the steps of the calls interleave;      *)
(*                      "advances": one caller, who makes other calls      *)
(*                      between two advances of a generator it holds       *)
(*   started            the calls started (it stays 0 under "caller")      *)
(*   constructed        history: the plugins constructed since the cache   *)
(*                      was last reset, [key, id], in order                *)
(* A plugin object is [id, priority, gen]: its identity, its priority      *)
(* field and the generation of the configuration it was built from.        *)
(***************************************************************************)
VARIABLES providers_config, confs, product_type_to_provider_config_map,
          built_plugins_cache, calls, sched, started, constructed

vars == << providers_config, confs, product_type_to_provider_config_map,
           built_plugins_cache, calls, sched, started, constructed >>

Slots == 1 .. NSlots

NoRef == Ref(0, "")
NoInstance == [id |-> NoPlugin, priority |-> NonePriority, gen |-> 0]
NoRet == [kind |-> "", id |-> NoPlugin, err |-> ""]
NoLookup == [specific |-> FALSE, generic |-> ""]

\* A slot with no call in it.
Idle ==
  [op |-> "", pc |-> "idle", product_type |-> "", provider |-> "", priority |-> 0,
   name |-> "",
   conf |-> 0, todo |-> << >>, configs |-> << >>, config |-> NoRef, cap |-> "",
   key |-> << "", "" >>, plugin |-> NoInstance, ret |-> NoRet,
   yielded |-> << >>, cands |-> << >>, lookup |-> NoLookup,
   torn |-> FALSE]

\* The dict operations the manager uses on the cache.
CacheKeys(cache) == { cache[i].key : i \in 1 .. Len(cache) }

CacheGet(cache, key) ==
  cache[CHOOSE i \in 1 .. Len(cache) : cache[i].key = key].val

\* _build_plugin without line 352: the plugin built is not stored.
CacheLose(cache, key, val) == cache

CachePut(cache, key, val) ==
  IF key \in CacheKeys(cache)
  THEN [i \in 1 .. Len(cache) |->
          IF cache[i].key = key THEN [key |-> key, val |-> val] ELSE cache[i]]
  ELSE Append(cache, [key |-> key, val |-> val])

\* The identities in use: of the plugins of the cache, of those a call holds
\* and of those constructed since the cache was reset.
LiveIds ==
  ({ built_plugins_cache[i].val.id : i \in 1 .. Len(built_plugins_cache) }
     \cup { calls[s].plugin.id : s \in Slots }
     \cup { calls[s].ret.id : s \in Slots }
     \cup { constructed[i].id : i \in 1 .. Len(constructed) }) \ {NoPlugin}

\* plugin_class(provider, plugin_conf): a new object; it keeps the
\* configuration it was given, and with it the priority propagated onto it.
NewPlugin(id, config, plugin_conf) ==
  [id |-> id, priority |-> plugin_conf.priority, gen |-> config.g]

\* The generations some reference leads to: from the store, the index or
\* the local variables of a call.
GenRefs(store, idx, cs) ==
  {store.gen}
    \cup { r.g : r \in UNION { Range(idx[pt]) : pt \in DOMAIN idx } }
    \cup UNION { { r.g : r \in Range(cs[s].configs) } : s \in DOMAIN cs }
    \cup ({ cs[s].config.g : s \in DOMAIN cs } \ {0})

\* The ProviderConfig objects still referred to.
Sweep(cf, gens) == [g \in DOMAIN cf \cap gens |-> cf[g]]

\* The generations whose number is taken: by objects, or by a plugin that
\* was built from one.
GensInUse ==
  DOMAIN confs
    \cup { built_plugins_cache[i].val.gen : i \in 1 .. Len(built_plugins_cache) }
    \cup { calls[s].plugin.gen : s \in Slots }

\* A call returns plugin `inst`: a generator yields it, any other call
\* returns it.
Deliver(a, inst) ==
  IF a.op = "get_search_plugins"
  THEN [a EXCEPT !.pc = "yield",
                 !.ret = [kind |-> "plugin", id |-> inst.id, err |-> ""],
                 !.yielded = Append(@, a.config)]
  ELSE [a EXCEPT !.pc = "returned",
                 !.ret = [kind |-> "plugin", id |-> inst.id, err |-> ""]]

\* A generator that skips a candidate it cannot build a plugin for and goes
\* on with the next one, where the code lets the error out.
RaiseOrSkip(a, e) ==
  IF a.op = "get_search_plugins" /\ e \in {"MisconfiguredError", "UnknownPluginType"}
  THEN [a EXCEPT !.pc = "yield", !.ret = NoRet]
  ELSE [a EXCEPT !.pc = "returned",
                 !.ret = [kind |-> "error", id |-> NoPlugin, err |-> e]]

Raise(a, e) ==
  [a EXCEPT !.pc = "returned", !.ret = [kind |-> "error", id |-> NoPlugin, err |-> e]]

ReturnNone(a) ==
  [a EXCEPT !.pc = "returned", !.ret = [kind |-> "none", id |-> NoPlugin, err |-> ""]]

\* Slot u holds a generator that waits for its caller: created and not
\* advanced yet, or suspended at the yield of line 226.
Held(u) == calls[u].op = "get_search_plugins" /\ calls[u].pc \in {"created", "yield"}

\* Slot s may take a step.
Turn(s) ==
  \/ sched = "threads"
  \/ \A u \in Slots \ {s} : calls[u].pc = "idle"
  \/ sched = "advances" /\ \A u \in Slots \ {s} : calls[u].pc = "idle" \/ Held(u)

\* A new call takes the first free slot.
Free(s) ==
  /\ calls[s].pc = "idle"
  /\ \A u \in 1 .. s - 1 : calls[u].pc # "idle"
  /\ Turn(s)
  /\ sched # "caller" => started < MaxCalls

\* The calls started, once this one is.
Started == IF sched # "caller" THEN started + 1 ELSE started

\* The index misses a provider of the store under one of its product types.
PartialIndex ==
  \E n \in Range(providers_config.keys) :
    \E pt \in confs[providers_config.gen][n].products :
      \/ pt \notin DOMAIN product_type_to_provider_config_map
      \/ Ref(providers_config.gen, n)
           \notin Range(product_type_to_provider_config_map[pt])

\* The cache holds a plugin built from a configuration the store no longer holds.
OldCache ==
  \E i \in 1 .. Len(built_plugins_cache) :
    /\ built_plugins_cache[i].val.id # NoPlugin
    /\ built_plugins_cache[i].val.gen # providers_config.gen

\* Some other call is a rebuild that has changed the store or the index and
\* has not returned.
Rebuilding(s) ==
  \E u \in Slots \ {s} :
    calls[u].op = "rebuild" /\ calls[u].pc \in {"build_143", "build_145", "rebuild_139"}


(***************************************************************************)
(* get_search_plugins(product_type, provider): calling it creates the      *)
(* generator and runs none of its body.                                    *)
(***************************************************************************)
get_search_plugins(s) ==
  \E pt \in RequestedProductTypes, pr \in RequestedProviders :
    /\ Free(s)
    /\ calls' = [calls EXCEPT ![s] =
                   [Idle EXCEPT !.op = "get_search_plugins", !.pc = "created",
                                !.product_type = pt, !.provider = pr]]
    /\ started' = Started
    /\ UNCHANGED << providers_config, confs, product_type_to_provider_config_map,
                    built_plugins_cache, sched, constructed >>

\* get_search_plugins without the filter of lines 213-216.
CandidatesUnfiltered(pt, pr, idx, store, cf) ==
  LET specific == IF pt \in DOMAIN idx THEN idx[pt] ELSE << >>
  IN IF pt # ""
     THEN IF specific # << >> THEN specific ELSE idx[GENERIC_PRODUCT_TYPE]
     ELSE [i \in 1 .. Len(store.keys) |-> Ref(store.gen, store.keys[i])]

\* get_search_plugins with a filter of lines 213-216 that compares the name
\* only and not the group.
CandidatesByNameOnly(pt, pr, idx, store, cf) ==
  LET specific == IF pt \in DOMAIN idx THEN idx[pt] ELSE << >>
      base == IF pt # ""
              THEN IF specific # << >> THEN specific ELSE idx[GENERIC_PRODUCT_TYPE]
              ELSE [i \in 1 .. Len(store.keys) |-> Ref(store.gen, store.keys[i])]
  IN IF pr # ""
     THEN SelectSeqBy(base, { r \in Range(base) : pr = Deref(cf, r).name })
     ELSE base

\* get_search_plugins taking the generic list also when the filter of lines
\* 213-216 left nothing of the list of the product type.
CandidatesFallbackLate(pt, pr, idx, store, cf) ==
  LET specific == IF pt \in DOMAIN idx THEN idx[pt] ELSE << >>
      generic == IF GENERIC_PRODUCT_TYPE \in DOMAIN idx
                 THEN idx[GENERIC_PRODUCT_TYPE] ELSE << >>
      filter(l) == IF pr # ""
                   THEN SelectSeqBy(l, { r \in Range(l) :
                                          pr \in {Deref(cf, r).group, Deref(cf, r).name} })
                   ELSE l
  IN IF pt # ""
     THEN IF filter(specific) # << >> THEN filter(specific) ELSE filter(generic)
     ELSE filter([i \in 1 .. Len(store.keys) |-> Ref(store.gen, store.keys[i])])

\* Lines 203-216: the candidate configurations.
Candidates(pt, pr, idx, store, cf) ==
  LET specific == IF pt \in DOMAIN idx THEN idx[pt] ELSE << >>
      base == IF pt # ""
              THEN IF specific # << >> THEN specific ELSE idx[GENERIC_PRODUCT_TYPE]
              ELSE [i \in 1 .. Len(store.keys) |-> Ref(store.gen, store.keys[i])]
  IN IF pr # ""
     THEN SelectSeqBy(base, { r \in Range(base) :
                                 pr \in {Deref(cf, r).group, Deref(cf, r).name} })
     ELSE base

\* The lookup of line 204 as setdefault(product_type, []): a product type
\* asked for and not in the index is given an empty list there.
IndexSetDefault(idx, pt) ==
  IF pt # "" /\ pt \notin DOMAIN idx
  THEN [p \in DOMAIN idx \cup {pt} |-> IF p = pt THEN << >> ELSE idx[p]]
  ELSE idx

\* Line 204, dict.get: the index after the lookup of the product type is the
\* index before it.
IndexGet(idx, pt) == idx

\* The first advance of the generator, lines 203-225: the candidates, the
\* errors for none, and the order of the iteration.
get_search_plugins_203(s) ==
  LET a == calls[s]
      idx == product_type_to_provider_config_map
      pt == a.product_type
      specific == IF pt \in DOMAIN idx THEN idx[pt] ELSE << >>
      generic == IF GENERIC_PRODUCT_TYPE \notin DOMAIN idx THEN "absent"
                 ELSE IF idx[GENERIC_PRODUCT_TYPE] = << >> THEN "empty" ELSE "listed"
      seen == [a EXCEPT !.lookup = [specific |-> specific # << >>, generic |-> generic],
                        !.torn = pt # "" /\ Rebuilding(s) /\ PartialIndex]
  IN /\ a.pc = "created"
     /\ Turn(s)
     /\ IF pt # "" /\ specific = << >> /\ generic = "absent"
        THEN calls' = [calls EXCEPT ![s] = Raise(seen, "KeyError")]
        ELSE LET configs == Candidates(pt, a.provider, idx, providers_config, confs)
             IN calls' = [calls EXCEPT ![s] =
                  IF configs = << >> /\ pt # ""
                  THEN Raise(seen, "UnsupportedProvider for product type")
                  ELSE IF configs = << >>
                  THEN Raise(seen, "UnsupportedProvider")
                  ELSE IF SortRaises(configs, confs)
                  THEN Raise(seen, "TypeError")
                  ELSE LET sorted == SortByPriority(configs, confs)
                       IN [seen EXCEPT
                             !.pc = "search_225",
                             !.configs = sorted,
                             !.cands = [i \in 1 .. Len(sorted) |->
                                          [ref |-> sorted[i],
                                           priority |-> Deref(confs, sorted[i]).priority]]]]
     /\ product_type_to_provider_config_map' = IndexGet(idx, pt)
     /\ UNCHANGED << providers_config, confs, built_plugins_cache, sched, started,
                     constructed >>

\* get_plugin with the tests of lines 188 and 192 exchanged.
SearchCapApiFirst(c) ==
  IF c.api.present THEN "api" ELSE IF c.search.present THEN "search" ELSE ""

\* Lines 188, 192 and 196: the capability get_plugin builds the plugin from.
SearchCap(c) ==
  IF c.search.present THEN "search" ELSE IF c.api.present THEN "api" ELSE ""

\* A loop over the list of the index itself instead of the list sorted()
\* returns: the next candidate is the one at the next place of the live
\* list, which set_priority sorts in place.
NextCandidateLive(a, idx) ==
  LET pos == Len(a.cands) - Len(a.configs) + 1
      live == IF a.product_type \in DOMAIN idx THEN idx[a.product_type] ELSE << >>
  IN IF a.provider = "" /\ pos <= Len(live) THEN live[pos] ELSE Head(a.configs)

\* Line 225, for config in sorted(...): the loop goes through the new list
\* that sorted() returned at the first advance, whatever the index holds by
\* now.
NextCandidate(a, idx) == Head(a.configs)

\* The next pass of the loop of line 225 and get_plugin, lines 186-200, up
\* to its call of _build_plugin: on the first advance after line 225, on a
\* later advance after the yield of line 226.
get_plugin(s) ==
  LET a == calls[s] IN
  /\ a.pc \in {"search_225", "yield"}
  /\ Turn(s)
  /\ IF a.configs = << >>
     THEN /\ calls' = [calls EXCEPT ![s] =
                         [a EXCEPT !.pc = "returned",
                                   !.ret = [kind |-> "stop", id |-> NoPlugin, err |-> ""]]]
          /\ UNCHANGED confs
     ELSE LET config == NextCandidate(a, product_type_to_provider_config_map)
              c == Deref(confs, config)
              step == [a EXCEPT !.configs = Tail(@), !.config = config, !.ret = NoRet,
                                !.plugin = NoInstance]
          IN IF SearchCap(c) = "search"
             THEN /\ confs' = [confs EXCEPT ![config.g][config.n].search =
                                 [@ EXCEPT !.products = c.products,
                                           !.priority = c.priority]]
                  /\ calls' = [calls EXCEPT ![s] =
                                 [step EXCEPT !.cap = "search", !.pc = "build_341",
                                              !.key = << c.name, "Search" >>]]
             ELSE IF SearchCap(c) = "api"
             THEN /\ confs' = [confs EXCEPT ![config.g][config.n].api =
                                 [@ EXCEPT !.products = c.products,
                                           !.priority = c.priority]]
                  /\ calls' = [calls EXCEPT ![s] =
                                 [step EXCEPT !.cap = "api", !.pc = "build_341",
                                              !.key = << c.name, "Api" >>]]
             ELSE /\ calls' = [calls EXCEPT ![s] = Raise(step, "MisconfiguredError")]
                  /\ UNCHANGED confs
  /\ UNCHANGED << providers_config, product_type_to_provider_config_map,
                  built_plugins_cache, sched, started, constructed >>

\* The caller drops a generator it has not exhausted.
close(s) ==
  /\ calls[s].pc \in {"created", "yield"}
  /\ Turn(s)
  /\ calls' = [calls EXCEPT ![s] = Idle]
  /\ confs' = Sweep(confs, GenRefs(providers_config,
                                   product_type_to_provider_config_map, calls'))
  /\ UNCHANGED << providers_config, product_type_to_provider_config_map,
                  built_plugins_cache, sched, started, constructed >>

\* The caller has the result of a call that returned or raised.
done(s) ==
  /\ calls[s].pc = "returned"
  /\ calls' = [calls EXCEPT ![s] = Idle]
  /\ confs' = Sweep(confs, GenRefs(providers_config,
                                   product_type_to_provider_config_map, calls'))
  /\ UNCHANGED << providers_config, product_type_to_provider_config_map,
                  built_plugins_cache, sched, started, constructed >>

(***************************************************************************)
(* _build_plugin(provider, plugin_conf, topic_class), for the key and the  *)
(* capability configuration the calling operation left in its slot.        *)
(***************************************************************************)
TopicOf(a) == a.key[2]

PluginConfOf(a, cf) == Deref(cf, a.config)[a.cap]

\* Lines 341-343 as an assignment of None instead of setdefault: a plugin
\* under the key is lost.
SetDefaultReset(cache, key) ==
  IF key \in CacheKeys(cache)
  THEN [i \in 1 .. Len(cache) |->
          IF cache[i].key = key THEN [cache[i] EXCEPT !.val = NoInstance]
          ELSE cache[i]]
  ELSE Append(cache, [key |-> key, val |-> NoInstance])

\* Lines 341-343: setdefault leaves None under a key that was missing.
SetDefault(cache, key) ==
  IF key \in CacheKeys(cache) THEN cache
  ELSE Append(cache, [key |-> key, val |-> NoInstance])

\* Lines 341-345.
build_plugin_341(s) ==
  LET a == calls[s]
      cache == SetDefault(built_plugins_cache, a.key)
      cached_instance == CacheGet(cache, a.key)
      seen == [a EXCEPT !.torn = @ \/ (Rebuilding(s) /\ OldCache)]
  IN /\ a.pc = "build_341"
     /\ Turn(s)
     /\ built_plugins_cache' = cache
     /\ calls' = [calls EXCEPT ![s] =
                    IF cached_instance.id # NoPlugin
                    THEN Deliver(seen, cached_instance)
                    ELSE [seen EXCEPT !.pc = "build_346"]]
     /\ UNCHANGED << providers_config, confs, product_type_to_provider_config_map,
                     sched, started, constructed >>

\* Lines 346-351 with the error for a type that is not registered caught:
\* the call returns None.
build_plugin_346_swallowed(s) ==
  LET a == calls[s]
      plugin_conf == PluginConfOf(a, confs)
      id == Fresh(LiveIds)
  IN /\ a.pc = "build_346"
     /\ Turn(s)
     /\ IF plugin_conf.type \notin RegisteredPlugins(TopicOf(a))
        THEN /\ calls' = [calls EXCEPT ![s] = ReturnNone(a)]
             /\ UNCHANGED constructed
        ELSE /\ constructed' = Append(constructed, [key |-> a.key, id |-> id])
             /\ calls' = [calls EXCEPT ![s] =
                            [a EXCEPT !.pc = "build_352",
                                      !.plugin = NewPlugin(id, a.config, plugin_conf)]]
     /\ UNCHANGED << providers_config, confs, product_type_to_provider_config_map,
                     built_plugins_cache, sched, started >>

\* Lines 346-351: the class registered under the configured type name, or
\* the error for none, and the construction of the plugin.
build_plugin_346(s) ==
  LET a == calls[s]
      plugin_conf == PluginConfOf(a, confs)
      id == Fresh(LiveIds)
  IN /\ a.pc = "build_346"
     /\ Turn(s)
     /\ IF plugin_conf.type \notin RegisteredPlugins(TopicOf(a))
        THEN /\ calls' = [calls EXCEPT ![s] = Raise(a, "UnknownPluginType")]
             /\ UNCHANGED constructed
        ELSE /\ constructed' = Append(constructed, [key |-> a.key, id |-> id])
             /\ calls' = [calls EXCEPT ![s] =
                            [a EXCEPT !.pc = "build_352",
                                      !.plugin = NewPlugin(id, a.config, plugin_conf)]]
     /\ UNCHANGED << providers_config, confs, product_type_to_provider_config_map,
                     built_plugins_cache, sched, started >>

\* Lines 352-353.
build_plugin_352(s) ==
  LET a == calls[s] IN
  /\ a.pc = "build_352"
  /\ Turn(s)
  /\ built_plugins_cache' = CachePut(built_plugins_cache, a.key, a.plugin)
  /\ calls' = [calls EXCEPT ![s] = Deliver(a, a.plugin)]
  /\ UNCHANGED << providers_config, confs, product_type_to_provider_config_map,
                  sched, started, constructed >>

(***************************************************************************)
(* get_download_plugin(product), lines 237-251, up to _build_plugin.       *)
(***************************************************************************)
\* get_download_plugin with the tests of lines 238 and 244 exchanged.
DownloadCapApiFirst(plugin_conf) ==
  IF plugin_conf.api.present THEN "api"
  ELSE IF plugin_conf.download.present THEN "download"
  ELSE ""

\* Lines 238, 244 and 248: the capability the plugin is built from.
DownloadCap(plugin_conf) ==
  IF plugin_conf.download.present THEN "download"
  ELSE IF plugin_conf.api.present THEN "api"
  ELSE ""

\* get_download_plugin handing Download to _build_plugin for either
\* capability.
DownloadTopicOnly(cap) == "Download"

\* Lines 240-242 and 247: the topic class handed to _build_plugin with the
\* capability.
DownloadTopic(cap) == IF cap = "download" THEN "Download" ELSE "Api"

get_download_plugin(s) ==
  \E provider \in ProviderNames :
    LET a == [Idle EXCEPT !.op = "get_download_plugin", !.provider = provider]
        g == providers_config.gen
    IN /\ Free(s)
       /\ IF provider \notin Range(providers_config.keys)
          THEN /\ calls' = [calls EXCEPT ![s] = Raise(a, "KeyError")]
               /\ UNCHANGED confs
          ELSE LET plugin_conf == confs[g][provider] IN
               IF DownloadCap(plugin_conf) = "download"
               THEN /\ confs' = [confs EXCEPT ![g][provider].download.priority =
                                   plugin_conf.priority]
                    /\ calls' = [calls EXCEPT ![s] =
                                   [a EXCEPT !.pc = "build_341", !.cap = "download",
                                             !.config = Ref(g, provider),
                                             !.key = << provider, DownloadTopic("download") >>]]
               ELSE IF DownloadCap(plugin_conf) = "api"
               THEN /\ confs' = [confs EXCEPT ![g][provider].api =
                                   [@ EXCEPT !.products = plugin_conf.products,
                                             !.priority = plugin_conf.priority]]
                    /\ calls' = [calls EXCEPT ![s] =
                                   [a EXCEPT !.pc = "build_341", !.cap = "api",
                                             !.config = Ref(g, provider),
                                             !.key = << provider, DownloadTopic("api") >>]]
               ELSE /\ calls' = [calls EXCEPT ![s] = Raise(a, "MisconfiguredError")]
                    /\ UNCHANGED confs
       /\ started' = Started
       /\ UNCHANGED << providers_config, product_type_to_provider_config_map,
                       built_plugins_cache, sched, constructed >>

(***************************************************************************)
(* get_auth_plugin(provider), lines 263-269, up to _build_plugin.          *)
(***************************************************************************)
\* get_auth_plugin without the test of line 265.
AlwaysAuth(plugin_conf) == TRUE

\* Lines 264-265: the provider has an auth configuration.
HasAuth(plugin_conf) == plugin_conf.auth.present

get_auth_plugin(s) ==
  \E provider \in ProviderNames :
    LET a == [Idle EXCEPT !.op = "get_auth_plugin", !.provider = provider]
        g == providers_config.gen
    IN /\ Free(s)
       /\ IF provider \notin Range(providers_config.keys)
          THEN /\ calls' = [calls EXCEPT ![s] = Raise(a, "KeyError")]
               /\ UNCHANGED confs
          ELSE LET plugin_conf == confs[g][provider] IN
               IF ~HasAuth(plugin_conf)
               THEN /\ calls' = [calls EXCEPT ![s] = ReturnNone(a)]
                    /\ UNCHANGED confs
               ELSE /\ confs' = [confs EXCEPT ![g][provider].auth.priority =
                                   plugin_conf.priority]
                    /\ calls' = [calls EXCEPT ![s] =
                                   [a EXCEPT !.pc = "build_341", !.cap = "auth",
                                             !.config = Ref(g, provider),
                                             !.key = << provider, "Authentication" >>]]
       /\ started' = Started
       /\ UNCHANGED << providers_config, product_type_to_provider_config_map,
                       built_plugins_cache, sched, constructed >>

(***************************************************************************)
(* get_crunch_plugin(name, **options), a static method: the caller may     *)
(* call it while it holds the crunchers of earlier calls.  The options     *)
(* are handed to the constructor and nothing here looks at them.           *)
(***************************************************************************)
\* A new call of the static method takes the first free slot.
FreeStatic(s) ==
  /\ calls[s].pc = "idle"
  /\ \A u \in 1 .. s - 1 : calls[u].pc # "idle"
  /\ sched # "caller" => started < MaxCalls
  /\ sched = "caller" =>
       \A u \in Slots \ {s} :
         calls[u].pc = "idle"
           \/ (calls[u].op = "get_crunch_plugin" /\ calls[u].pc = "returned")
  /\ sched = "advances" =>
       \A u \in Slots \ {s} :
         \/ calls[u].pc = "idle"
         \/ Held(u)
         \/ (calls[u].op = "get_crunch_plugin" /\ calls[u].pc = "returned")

\* get_crunch_plugin keeping one cruncher per name: a call for a name some
\* caller holds a cruncher of returns that cruncher.
ReuseCrunch(name, cs) ==
  LET held == { u \in DOMAIN cs :
                  cs[u].op = "get_crunch_plugin" /\ cs[u].name = name
                    /\ cs[u].ret.kind = "cruncher" }
  IN IF held # {} THEN cs[CHOOSE u \in held : TRUE].ret.id ELSE Fresh(LiveIds)

\* Line 289, klass(options): a new object.
NewCrunch(name, cs) == Fresh(LiveIds)

\* Lines 288-289.
get_crunch_plugin(s) ==
  \E name \in RequestedCrunchers :
    LET a == [Idle EXCEPT !.op = "get_crunch_plugin", !.name = name] IN
    /\ FreeStatic(s)
    /\ calls' = [calls EXCEPT ![s] =
                   IF name \notin RegisteredPlugins("Crunch")
                   THEN Raise(a, "UnknownPluginType")
                   ELSE [a EXCEPT !.pc = "returned",
                                  !.ret = [kind |-> "cruncher",
                                           id |-> NewCrunch(name, calls),
                                           err |-> ""]]]
    /\ started' = Started
    /\ UNCHANGED << providers_config, confs, product_type_to_provider_config_map,
                    built_plugins_cache, sched, constructed >>

(***************************************************************************)
(* set_priority(provider, priority).                                       *)
(***************************************************************************)
\* set_priority without line 312: no configuration is given the priority.
KeepIndexPriority(idx, cf, provider, priority) ==
  [confs |-> cf, index |-> [pt \in DOMAIN idx |-> SortByPriority(idx[pt], cf)]]

\* set_priority without lines 313-314: the lists keep their order.
SetIndexPriorityUnsorted(idx, cf, provider, priority) ==
  LET hit == { r \in UNION { Range(idx[pt]) : pt \in DOMAIN idx } :
                 Deref(cf, r).name = provider }
      cf1 == [g \in DOMAIN cf |->
                [n \in DOMAIN cf[g] |->
                   IF Ref(g, n) \in hit THEN [cf[g][n] EXCEPT !.priority = priority]
                   ELSE cf[g][n]]]
  IN [confs |-> cf1, index |-> idx]

\* Lines 306-314: the priority of every configuration of that name in the
\* index, and every list of the index sorted again.
SetIndexPriority(idx, cf, provider, priority) ==
  LET hit == { r \in UNION { Range(idx[pt]) : pt \in DOMAIN idx } :
                 Deref(cf, r).name = provider }
      cf1 == [g \in DOMAIN cf |->
                [n \in DOMAIN cf[g] |->
                   IF Ref(g, n) \in hit THEN [cf[g][n] EXCEPT !.priority = priority]
                   ELSE cf[g][n]]]
  IN [confs |-> cf1,
      index |-> [pt \in DOMAIN idx |-> SortByPriority(idx[pt], cf1)]]

set_priority(s) ==
  \E provider \in ProviderNames, priority \in Priorities :
    LET a == [Idle EXCEPT !.op = "set_priority", !.pc = "set_priority_316",
                          !.provider = provider, !.priority = priority,
                          !.torn = Rebuilding(s) /\ PartialIndex]
        new == SetIndexPriority(product_type_to_provider_config_map, confs,
                                provider, priority)
    IN /\ Free(s)
       /\ confs' = new.confs
       /\ product_type_to_provider_config_map' = new.index
       /\ calls' = [calls EXCEPT ![s] = a]
       /\ started' = Started
       /\ UNCHANGED << providers_config, built_plugins_cache, sched,
                       constructed >>

\* set_priority without lines 316-318: the plugins built keep their priority.
SkipCachePriority(cache, provider, priority) == [raised |-> FALSE, cache |-> cache]

\* The loop of lines 316-318 without the test of line 317: every plugin in
\* the cache is given the priority.
SetCachePriorityAll(cache, provider, priority) ==
  [raised |-> FALSE,
   cache |-> [i \in 1 .. Len(cache) |->
                IF cache[i].val.id # NoPlugin
                THEN [cache[i] EXCEPT !.val.priority = priority]
                ELSE cache[i]]]

\* Lines 316-318: the loop over the keys of the cache, in their order.  An
\* entry of that provider holding None ends it with AttributeError, the
\* entries before it updated.
SetCachePriority(cache, provider, priority) ==
  LET mine == { i \in 1 .. Len(cache) : cache[i].key[1] = provider }
      bad == { i \in mine : cache[i].val.id = NoPlugin }
      upto == IF bad = {} THEN Len(cache)
              ELSE CHOOSE i \in bad : \A j \in bad : i <= j
  IN [raised |-> bad # {},
      cache |-> [i \in 1 .. Len(cache) |->
                   IF i \in mine /\ i < upto + 1 /\ i \notin bad
                   THEN [cache[i] EXCEPT !.val.priority = priority]
                   ELSE cache[i]]]

set_priority_316(s) ==
  LET a == calls[s]
      new == SetCachePriority(built_plugins_cache, a.provider, a.priority)
  IN /\ a.pc = "set_priority_316"
     /\ Turn(s)
     /\ built_plugins_cache' = new.cache
     /\ calls' = [calls EXCEPT ![s] =
                    IF new.raised THEN Raise(a, "AttributeError") ELSE ReturnNone(a)]
     /\ UNCHANGED << providers_config, confs, product_type_to_provider_config_map,
                     sched, started, constructed >>

(***************************************************************************)
(* rebuild(providers_config=None).                                         *)
(***************************************************************************)
\* Lines 135-136: a configuration given replaces the store.
rebuild(s) ==
  \E conf \in 0 .. Len(Configurations) :
    LET a == [Idle EXCEPT !.op = "rebuild", !.pc = "build_143", !.conf = conf]
        g == Fresh(GensInUse)
    IN /\ Free(s)
       /\ IF conf = 0
          THEN UNCHANGED << providers_config, confs >>
          ELSE /\ confs' = (g :> LoadConf(Configurations[conf])) @@ confs
               /\ providers_config' = [gen |-> g, keys |-> Names(Configurations[conf])]
       /\ calls' = [calls EXCEPT ![s] = a]
          /\ started' = Started
          /\ UNCHANGED << product_type_to_provider_config_map, built_plugins_cache,
                       sched, constructed >>

\* Lines 143-144: the index emptied, and the list of the store's keys.
build_map_143(s) ==
  LET a == calls[s] IN
  /\ a.pc = "build_143"
  /\ Turn(s)
  /\ product_type_to_provider_config_map' = << >>
  /\ calls' = [calls EXCEPT ![s] =
                 [a EXCEPT !.todo = providers_config.keys,
                           !.pc = IF providers_config.keys = << >>
                                  THEN "rebuild_139" ELSE "build_145"]]
  /\ confs' = Sweep(confs, GenRefs(providers_config, << >>, calls'))
  /\ UNCHANGED << providers_config, built_plugins_cache, sched, started,
                  constructed >>

\* Lines 145-165: one pass of the loop.
build_map_145(s) ==
  LET a == calls[s]
      provider == Head(a.todo)
      st == BuildProvider([keys |-> providers_config.keys, confs |-> confs,
                           index |-> product_type_to_provider_config_map],
                          providers_config.gen, provider)
  IN /\ a.pc = "build_145"
     /\ Turn(s)
     /\ IF provider \notin Range(providers_config.keys)
        THEN /\ calls' = [calls EXCEPT ![s] = Raise(a, "KeyError")]
             /\ UNCHANGED << providers_config, confs,
                             product_type_to_provider_config_map >>
        ELSE /\ providers_config' = [providers_config EXCEPT !.keys = st.keys]
             /\ confs' = st.confs
             /\ product_type_to_provider_config_map' = st.index
             /\ calls' = [calls EXCEPT ![s] =
                            [a EXCEPT !.todo = Tail(@),
                                      !.pc = IF Tail(a.todo) = << >>
                                             THEN "rebuild_139" ELSE "build_145"]]
     /\ UNCHANGED << built_plugins_cache, sched, started, constructed >>

\* rebuild without line 139: the cache is kept.
KeepCache(cache) == cache

\* Line 139: a new, empty cache.
EmptyCache(cache) == << >>

rebuild_139(s) ==
  LET a == calls[s] IN
  /\ a.pc = "rebuild_139"
  /\ Turn(s)
  /\ built_plugins_cache' = EmptyCache(built_plugins_cache)
  /\ constructed' = << >>
  /\ calls' = [calls EXCEPT ![s] = ReturnNone(a)]
  /\ UNCHANGED << providers_config, confs, product_type_to_provider_config_map,
                  sched, started >>

(***************************************************************************)
(* The manager after __init__(providers_config): the store it was given,   *)
(* the rebuild of line 129 done, nothing built.                            *)
(***************************************************************************)
Constructed(conf, how) ==
  LET st == BuildMap(Names(conf), 1 :> LoadConf(conf), 1) IN
  /\ providers_config = [gen |-> 1, keys |-> st.keys]
  /\ confs = st.confs
  /\ product_type_to_provider_config_map = st.index
  /\ built_plugins_cache = << >>
  /\ calls = [s \in Slots |-> Idle]
  /\ sched = how
  /\ started = 0
  /\ constructed = << >>

Init == \E i \in 1 .. Len(Configurations) : Constructed(Configurations[i], "caller")

InitConc == \E i \in 1 .. Len(Configurations) : Constructed(Configurations[i], "threads")

InitLazy == \E i \in 1 .. Len(Configurations) : Constructed(Configurations[i], "advances")

Next ==
  \E s \in Slots :
    \/ get_search_plugins(s)
    \/ get_search_plugins_203(s)
    \/ get_plugin(s)
    \/ close(s)
    \/ done(s)
    \/ build_plugin_341(s)
    \/ build_plugin_346(s)
    \/ build_plugin_352(s)
    \/ get_download_plugin(s)
    \/ get_auth_plugin(s)
    \/ get_crunch_plugin(s)
    \/ set_priority(s)
    \/ set_priority_316(s)
    \/ rebuild(s)
    \/ build_map_143(s)
    \/ build_map_145(s)
    \/ rebuild_139(s)

Spec == Init /\ [][Next]_vars

SpecConc == InitConc /\ [][Next]_vars

\* One caller that holds generators across its other calls.
SpecLazy == InitLazy /\ [][Next]_vars

(***************************************************************************)
(* What the calls in progress show.                                        *)
(***************************************************************************)
\* Slot s holds a call that has just handed a plugin to its caller.
Handed(s) == calls[s].pc \in {"returned", "yield"} /\ calls[s].ret.kind = "plugin"

\* That plugin came from the cache, lines 344-345, not from a construction.
CacheHit(s) == Handed(s) /\ calls[s].plugin.id = NoPlugin

\* The places of `constructed` that hold a construction for the key.
ConstructedFor(key) ==
  { i \in 1 .. Len(constructed) : constructed[i].key = key }

\* The priority candidate r had when the generator sorted its candidates.
PriorityAt(a, r) ==
  a.cands[CHOOSE i \in 1 .. Len(a.cands) : a.cands[i].ref = r].priority

\* Slot s holds a set_priority that returned without raising.
SetPriorityReturned(s) ==
  /\ calls[s].op = "set_priority"
  /\ calls[s].pc = "returned"
  /\ calls[s].ret.kind = "none"

\* C1: between two rebuilds every key (provider, topic) has a plugin
\* constructed for it at most once, and every resolution of the key hands
\* back that one instance, whatever resolutions and set_priority calls came
\* before.
C1_OneInstancePerKey ==
  /\ \A i, j \in 1 .. Len(constructed) :
       constructed[i].key = constructed[j].key => i = j
  /\ \A s \in Slots :
       Handed(s) =>
         \E i \in ConstructedFor(calls[s].key) : constructed[i].id = calls[s].ret.id

\* A resolution was answered from the cache, with another key built as well.
C1_Witness ==
  \E s \in Slots :
    /\ CacheHit(s)
    /\ Len(constructed) = 2
    /\ \E i \in ConstructedFor(calls[s].key) : constructed[i].id = calls[s].ret.id

\* C2: when several callers resolve the same key at once for the first
\* time, one plugin is constructed for it and all of them receive it.
C2_OneConstructionUnderThreads ==
  /\ \A key \in { constructed[i].key : i \in 1 .. Len(constructed) } :
       Cardinality(ConstructedFor(key)) = 1
  /\ \A s, t \in Slots :
       (/\ Handed(s) /\ Handed(t)
        /\ calls[s].key = calls[t].key
        /\ \E i, j \in ConstructedFor(calls[s].key) :
             constructed[i].id = calls[s].ret.id /\ constructed[j].id = calls[t].ret.id)
         => calls[s].ret.id = calls[t].ret.id

\* C3: get_search_plugins(product_type) yields the plugin of a candidate of
\* higher priority before that of a candidate of lower priority.
C3_HigherPriorityFirst ==
  \A s \in Slots :
    LET a == calls[s] IN
    (a.op = "get_search_plugins" /\ a.product_type # "") =>
      \A i \in 1 .. Len(a.cands), k \in 1 .. Len(a.yielded) :
        a.cands[i].priority > PriorityAt(a, a.yielded[k]) =>
          \E m \in 1 .. k - 1 : a.yielded[m] = a.cands[i].ref

\* A search by product type yielded B, raised by set_priority above A, and
\* then A.
C3_Witness ==
  \E s \in Slots :
    LET a == calls[s] IN
    /\ a.op = "get_search_plugins" /\ a.product_type = "optical"
    /\ Len(a.yielded) = 2
    /\ a.yielded[1].n = "B" /\ a.yielded[2].n = "A"
    /\ PriorityAt(a, a.yielded[1]) > PriorityAt(a, a.yielded[2])

\* C4: get_search_plugins(product_type) yields the plugins of candidates of
\* equal priority in the order of their providers in the store.
C4_TiesInRegistrationOrder ==
  \A s \in Slots :
    LET a == calls[s] IN
    (a.op = "get_search_plugins" /\ a.product_type # "") =>
      \A k, m \in 1 .. Len(a.yielded) :
        (/\ k < m
         /\ PriorityAt(a, a.yielded[k]) = PriorityAt(a, a.yielded[m])
         /\ a.yielded[k].g = providers_config.gen
         /\ a.yielded[m].g = providers_config.gen)
          => IndexOf(providers_config.keys, a.yielded[k].n)
               < IndexOf(providers_config.keys, a.yielded[m].n)

\* C5: when set_priority(X, p) returns, the cache holds under the same keys
\* the same plugins of X as before the call, each with priority p, and
\* nothing was constructed.
C5_SetPriorityKeepsInstances ==
  [][\A s \in Slots :
       (calls[s].pc = "set_priority_316" /\ SetPriorityReturned(s)') =>
         /\ Len(built_plugins_cache') = Len(built_plugins_cache)
         /\ constructed' = constructed
         /\ \A i \in 1 .. Len(built_plugins_cache) :
              LET old == built_plugins_cache[i]
                  new == built_plugins_cache'[i]
              IN /\ new.key = old.key
                 /\ new.val.id = old.val.id
                 /\ old.key[1] = calls[s].provider => new.val.priority = calls[s].priority]_vars

\* set_priority(X, p) returned with a plugin of X in the cache whose
\* configuration was given another priority when the plugin was built.
C5_Witness ==
  \E s \in Slots :
    /\ SetPriorityReturned(s)
    /\ \E i \in 1 .. Len(built_plugins_cache) :
         LET e == built_plugins_cache[i] IN
         /\ e.key[1] = calls[s].provider
         /\ e.val.id # NoPlugin
         /\ e.val.priority = calls[s].priority
         /\ e.val.gen \in DOMAIN confs
         /\ \E cap \in {"search", "api", "download", "auth"} :
              LET pc == confs[e.val.gen][e.key[1]][cap] IN
              pc.present /\ pc.priority \notin {NonePriority, calls[s].priority}

\* The product types a search can be asked for without lines 204-209 raising.
SearchableTypes ==
  { pt \in RequestedProductTypes \ {""} :
      \/ pt \in DOMAIN product_type_to_provider_config_map
           /\ product_type_to_provider_config_map[pt] # << >>
      \/ GENERIC_PRODUCT_TYPE \in DOMAIN product_type_to_provider_config_map }

\* The order in which a get_search_plugins(pt) started now goes through its
\* candidates, lines 203-225.
SearchOrder(pt) ==
  SortByPriority(Candidates(pt, "", product_type_to_provider_config_map,
                            providers_config, confs), confs)

\* The key under which get_plugin, lines 188-195, looks for the plugin of r.
SearchKey(r) ==
  IF Deref(confs, r).search.present THEN << r.n, "Search" >> ELSE << r.n, "Api" >>

\* C6: after set_priority(X, p) the next get_search_plugins(product_type)
\* goes through X by priority p, before every candidate of lower priority
\* and after every one of higher priority, and the plugins it finds in the
\* cache are those constructed before the call.
C6_NextSearchUsesNewPriority ==
  \A s \in Slots :
    SetPriorityReturned(s) =>
      \A pt \in SearchableTypes :
        LET order == SearchOrder(pt) IN
        \A i \in 1 .. Len(order) :
          /\ order[i].n = calls[s].provider =>
               \A j \in 1 .. Len(order) :
                 LET q == Deref(confs, order[j]).priority IN
                 /\ calls[s].priority > q => i < j
                 /\ calls[s].priority < q => j < i
          /\ LET key == SearchKey(order[i]) IN
             (key \in CacheKeys(built_plugins_cache)
                /\ CacheGet(built_plugins_cache, key).id # NoPlugin) =>
               \E k \in ConstructedFor(key) :
                 constructed[k].id = CacheGet(built_plugins_cache, key).id

\* set_priority("B", 2) returned where A has priority 1 and B was declared
\* without one: a search for "optical" now goes through B and then A, and
\* the plugins of both, built before, are in the cache.
C6_Witness ==
  \E s \in Slots :
    /\ SetPriorityReturned(s)
    /\ calls[s].provider = "B" /\ calls[s].priority = 2
    /\ "optical" \in SearchableTypes
    /\ LET order == SearchOrder("optical") IN
       /\ Len(order) = 2
       /\ order[1].n = "B" /\ order[2].n = "A"
       /\ Deref(confs, order[2]).priority = 1
       /\ \A i \in 1 .. 2 :
            /\ SearchKey(order[i]) \in CacheKeys(built_plugins_cache)
            /\ CacheGet(built_plugins_cache, SearchKey(order[i])).id # NoPlugin

\* C7: when rebuild returns the cache is empty, with a new configuration or
\* without, and a plugin a resolution hands back was constructed after the
\* last rebuild returned.
C7_RebuildEmptiesCache ==
  \A s \in Slots :
    /\ (calls[s].op = "rebuild" /\ calls[s].pc = "returned"
          /\ calls[s].ret.kind = "none") =>
         built_plugins_cache = << >>
    /\ Handed(s) =>
         calls[s].ret.id \in { constructed[i].id : i \in 1 .. Len(constructed) }

\* rebuild() without a configuration returned: a search plugin had been
\* resolved from the configurations it kept, and the cache is empty.
C7_Witness ==
  \E s \in Slots :
    /\ calls[s].op = "rebuild" /\ calls[s].pc = "returned"
    /\ calls[s].conf = 0
    /\ built_plugins_cache = << >>
    /\ \E n \in Range(providers_config.keys) :
         LET c == confs[providers_config.gen][n] IN
         c.search.present /\ c.search.priority # NonePriority

\* C8: get_search_plugins(product_type) for a product type with no entry in
\* the index raises, before it yields anything, UnsupportedProvider and no
\* other error, and only when the generic entry gave no candidate either.
C8_FallbackRaisesUnsupportedProvider ==
  \A s \in Slots :
    LET a == calls[s] IN
    (/\ a.op = "get_search_plugins" /\ a.product_type # ""
     /\ a.pc = "returned" /\ a.ret.kind = "error"
     /\ ~a.lookup.specific
     /\ a.cands = << >>) =>
      /\ a.ret.err \in {"UnsupportedProvider for product type", "UnsupportedProvider"}
      /\ a.lookup.generic # "absent"

\* C9: whenever no rebuild is in progress the index has an entry for the
\* generic product type.
C9_GenericEntryExists ==
  (\A s \in Slots : calls[s].op = "rebuild" => calls[s].pc = "returned") =>
    GENERIC_PRODUCT_TYPE \in DOMAIN product_type_to_provider_config_map

C11_SetPriorityAtomicPerProvider ==
  /\ [][\A s, u \in Slots :
          LET a == calls[s]
              key == a.key
          IN (/\ calls[u].op = "set_priority" /\ calls[u].pc = "set_priority_316"
              /\ a.pc = "build_341" /\ calls'[s].pc # "build_341"
              /\ key[1] = calls[u].provider
              /\ key \in CacheKeys(built_plugins_cache)
              /\ CacheGet(built_plugins_cache, key).id # NoPlugin
              /\ Deref(confs, a.config).priority = calls[u].priority)
               => CacheGet(built_plugins_cache, key).priority = calls[u].priority]_vars
  /\ [](\A s, u \in Slots :
          (/\ SetPriorityReturned(u)
           /\ \A t \in Slots \ {u} : calls[t].op \notin {"set_priority", "rebuild"}
           /\ Handed(s) /\ calls[s].plugin.id # NoPlugin
           /\ calls[s].key[1] = calls[u].provider
           /\ calls[s].key \in CacheKeys(built_plugins_cache)
           /\ CacheGet(built_plugins_cache, calls[s].key).id = calls[s].plugin.id)
            => CacheGet(built_plugins_cache, calls[s].key).priority = calls[u].priority)

\* C12: get_download_plugin for a provider of the store builds from the
\* provider's download configuration when it has one, whether or not it has
\* an api configuration, from its api configuration when it has no download
\* configuration, and raises MisconfiguredError when it has neither; the
\* plugin it returns is the one the cache holds under that key.
C12_DownloadThenApi ==
  \A s \in Slots :
    LET a == calls[s] IN
    (a.op = "get_download_plugin" /\ a.provider \in Range(providers_config.keys)) =>
      LET c == confs[providers_config.gen][a.provider] IN
      /\ c.download.present =>
           a.cap = "download" /\ a.key = << a.provider, "Download" >>
      /\ (~c.download.present /\ c.api.present) =>
           a.cap = "api" /\ a.key = << a.provider, "Api" >>
      /\ (~c.download.present /\ ~c.api.present) =>
           /\ a.pc = "returned"
           /\ a.ret = [kind |-> "error", id |-> NoPlugin, err |-> "MisconfiguredError"]
      /\ (c.download.present \/ c.api.present) =>
           (a.ret.kind = "error" => a.ret.err = "UnknownPluginType")
      /\ Handed(s) =>
           /\ CacheGet(built_plugins_cache, a.key).id = a.ret.id
           /\ a.plugin.id # NoPlugin => a.plugin.priority = c.priority

\* get_download_plugin returned the plugin it built from the download
\* configuration of a provider that has an api configuration as well.
C12_Witness ==
  \E s \in Slots :
    LET a == calls[s] IN
    /\ a.op = "get_download_plugin" /\ Handed(s)
    /\ a.provider \in Range(providers_config.keys)
    /\ confs[providers_config.gen][a.provider].download.present
    /\ confs[providers_config.gen][a.provider].api.present
    /\ a.key[2] = "Download"
    /\ a.plugin.id # NoPlugin

\* C13: get_auth_plugin for a provider of the store that has no auth
\* configuration returns None in one step that leaves the cache as it was;
\* for a provider that has one, the plugin it returns is the one the cache
\* holds under (provider, Authentication).
C13_AuthAbsentIsNone ==
  /\ [][\A s \in Slots :
          (/\ calls[s].pc = "idle"
           /\ calls'[s].op = "get_auth_plugin"
           /\ calls'[s].provider \in Range(providers_config.keys)
           /\ ~confs[providers_config.gen][calls'[s].provider].auth.present) =>
            /\ calls'[s].pc = "returned"
            /\ calls'[s].ret = [kind |-> "none", id |-> NoPlugin, err |-> ""]
            /\ built_plugins_cache' = built_plugins_cache]_vars
  /\ [](\A s \in Slots :
          (calls[s].op = "get_auth_plugin" /\ Handed(s)) =>
            /\ calls[s].provider \in Range(providers_config.keys)
            /\ confs[providers_config.gen][calls[s].provider].auth.present
            /\ calls[s].key = << calls[s].provider, "Authentication" >>
            /\ CacheGet(built_plugins_cache, calls[s].key).id = calls[s].ret.id)

\* get_auth_plugin returned None for a provider without auth configuration,
\* and the cache, which holds a plugin of that provider, has no entry under
\* (provider, Authentication).
C13_Witness ==
  \E s \in Slots :
    LET a == calls[s] IN
    /\ a.op = "get_auth_plugin" /\ a.pc = "returned" /\ a.ret.kind = "none"
    /\ a.provider \in Range(providers_config.keys)
    /\ ~confs[providers_config.gen][a.provider].auth.present
    /\ << a.provider, "Authentication" >> \notin CacheKeys(built_plugins_cache)
    /\ \E i \in 1 .. Len(built_plugins_cache) :
         /\ built_plugins_cache[i].key[1] = a.provider
         /\ built_plugins_cache[i].val.id # NoPlugin

\* Slot s holds a cruncher that get_crunch_plugin returned.
Cruncher(s) ==
  /\ calls[s].op = "get_crunch_plugin"
  /\ calls[s].pc = "returned"
  /\ calls[s].ret.kind = "cruncher"

\* C14: a call of get_crunch_plugin leaves the store, the index and the
\* cache as they were; for a registered name it returns an object that is
\* neither in the cache nor one an earlier call returned, for a name that
\* is not registered it raises.
C14_CrunchersAreNotCached ==
  /\ [][\A s \in Slots :
          (calls[s].pc = "idle" /\ calls'[s].op = "get_crunch_plugin") =>
            /\ UNCHANGED << providers_config, confs,
                            product_type_to_provider_config_map,
                            built_plugins_cache, constructed >>
            /\ calls'[s].pc = "returned"
            /\ IF calls'[s].name \in RegisteredPlugins("Crunch")
               THEN calls'[s].ret.kind = "cruncher" /\ calls'[s].ret.id # NoPlugin
               ELSE calls'[s].ret.kind = "error"]_vars
  /\ [](\A s \in Slots :
          Cruncher(s) =>
            /\ \A t \in Slots \ {s} : Cruncher(t) => calls[t].ret.id # calls[s].ret.id
            /\ \A i \in 1 .. Len(built_plugins_cache) :
                 built_plugins_cache[i].val.id # calls[s].ret.id)

\* The caller holds the crunchers of two calls for the same name, while the
\* cache holds a plugin.
C14_Witness ==
  \E s, t \in Slots :
    /\ s # t /\ Cruncher(s) /\ Cruncher(t)
    /\ calls[s].name = calls[t].name
    /\ \E i \in 1 .. Len(built_plugins_cache) : built_plugins_cache[i].val.id # NoPlugin

\* The product-type lookup of lines 203-211 of the search in record a came
\* to an end: it was not asked for, or found an entry for the product type
\* or for the generic one.
LookupDone(a) ==
  /\ a.op = "get_search_plugins"
  /\ a.pc # "created"
  /\ a.product_type = "" \/ a.lookup.specific \/ a.lookup.generic # "absent"

\* The configurations the search in record a can choose from: those of its
\* product type, or of the generic one, or all of the store, that have the
\* provider asked for as name or group.
Matching(a) ==
  LET idx == product_type_to_provider_config_map
      pt == a.product_type
      base == IF pt = ""
              THEN { Ref(providers_config.gen, n) : n \in Range(providers_config.keys) }
              ELSE IF pt \in DOMAIN idx /\ idx[pt] # << >>
              THEN Range(idx[pt])
              ELSE Range(idx[GENERIC_PRODUCT_TYPE])
  IN { r \in base :
         a.provider = "" \/ a.provider \in {Deref(confs, r).group, Deref(confs, r).name} }

\* C15: a get_search_plugins whose lookup and filter leave no candidate
\* raises UnsupportedProvider, the product-type variant when a product type
\* was given and the provider-only variant when not, and yields nothing;
\* with a candidate left it raises neither.
C15_NoCandidateIsUnsupportedProvider ==
  \A s \in Slots :
    LET a == calls[s]
        unsupported == IF a.product_type # ""
                       THEN "UnsupportedProvider for product type"
                       ELSE "UnsupportedProvider"
    IN LookupDone(a) =>
         /\ Matching(a) = {} =>
              /\ a.pc = "returned"
              /\ a.ret = [kind |-> "error", id |-> NoPlugin, err |-> unsupported]
              /\ a.yielded = << >>
         /\ Matching(a) # {} =>
              a.ret.err \notin {"UnsupportedProvider for product type",
                                "UnsupportedProvider"}

\* A search for a product type the index has, with a provider none of its
\* configurations has as name or group, raised the product-type variant.
C15_Witness ==
  \E s \in Slots :
    LET a == calls[s] IN
    /\ LookupDone(a) /\ a.product_type # "" /\ a.provider # ""
    /\ a.lookup.specific
    /\ a.ret.err = "UnsupportedProvider for product type"

\* C16: for the candidate a get_search_plugins is resolving, the plugin is
\* built from 'search' under topic Search when the provider has 'search',
\* with or without 'api', from 'api' under topic Api when it has 'api' and
\* no 'search', and the resolution raises MisconfiguredError when it has
\* neither.
C16_SearchThenApi ==
  \A s \in Slots :
    LET a == calls[s] IN
    (a.op = "get_search_plugins" /\ a.config # NoRef) =>
      LET c == Deref(confs, a.config) IN
      /\ c.search.present =>
           a.cap = "search" /\ a.key = << c.name, "Search" >>
      /\ (~c.search.present /\ c.api.present) =>
           a.cap = "api" /\ a.key = << c.name, "Api" >>
      /\ (~c.search.present /\ ~c.api.present) =>
           /\ a.pc = "returned"
           /\ a.ret = [kind |-> "error", id |-> NoPlugin, err |-> "MisconfiguredError"]
      /\ Handed(s) => CacheGet(built_plugins_cache, a.key).id = a.ret.id

\* A search raised MisconfiguredError on a provider with neither 'search'
\* nor 'api', after it yielded the Search plugin of a provider that has
\* both.
C16_Witness ==
  \E s \in Slots :
    LET a == calls[s] IN
    /\ a.op = "get_search_plugins" /\ a.config # NoRef
    /\ a.ret.err = "MisconfiguredError"
    /\ Len(a.yielded) = 1
    /\ Deref(confs, a.yielded[1]).search.present
    /\ Deref(confs, a.yielded[1]).api.present
    /\ << a.yielded[1].n, "Search" >> \in CacheKeys(built_plugins_cache)
    /\ << a.yielded[1].n, "Api" >> \notin CacheKeys(built_plugins_cache)

\* No rebuild is under way.
Quiescent == \A s \in Slots : calls[s].op = "rebuild" => calls[s].pc = "returned"

\* Slot s holds a rebuild that returned without raising.
RebuildReturned(s) ==
  /\ calls[s].op = "rebuild"
  /\ calls[s].pc = "returned"
  /\ calls[s].ret.kind = "none"

\* C17: when no rebuild is under way, every provider of the store has
\* products and every configuration in a list of the index is one of the
\* store, so a provider declared without products is in neither; no plugin
\* is handed back for a provider without products, and rebuild does not
\* raise.
C17_ProvidersWithoutProductsDropped ==
  /\ Quiescent =>
       /\ \A n \in Range(providers_config.keys) :
            confs[providers_config.gen][n].products # {}
       /\ \A pt \in DOMAIN product_type_to_provider_config_map :
            \A r \in Range(product_type_to_provider_config_map[pt]) :
              /\ r.g = providers_config.gen
              /\ r.n \in Range(providers_config.keys)
              /\ pt \in Deref(confs, r).products
  /\ \A s \in Slots :
       /\ Handed(s) =>
            /\ calls[s].key[1] \in Range(providers_config.keys)
            /\ Deref(confs, calls[s].config).products # {}
       /\ (calls[s].op = "rebuild" /\ calls[s].pc = "returned") =>
            calls[s].ret.kind = "none"
       /\ (RebuildReturned(s) /\ calls[s].conf # 0) =>
            \A i \in 1 .. Len(Configurations[calls[s].conf]) :
              LET d == Configurations[calls[s].conf][i] IN
              d.products = {} <=> d.name \notin Range(providers_config.keys)

\* rebuild returned for a configuration that declares three providers, one
\* of them without products: the store has the other two.
C17_Witness ==
  \E s \in Slots :
    /\ RebuildReturned(s) /\ calls[s].conf # 0
    /\ Len(Configurations[calls[s].conf]) = 3
    /\ \E i \in 1 .. 3 : Configurations[calls[s].conf][i].products = {}
    /\ Len(providers_config.keys) = 2

\* C18: when no rebuild is under way, every provider of the store has an
\* integer priority and every list of the index is in descending order of
\* priority; when rebuild returns, a provider declared without priority has
\* priority 0 in the store and a provider declared with one has that one.
C18_UnsetPriorityIsZero ==
  /\ Quiescent =>
       /\ \A n \in Range(providers_config.keys) :
            confs[providers_config.gen][n].priority \in Nat
       /\ \A pt \in DOMAIN product_type_to_provider_config_map :
            LET l == product_type_to_provider_config_map[pt] IN
            \A i, j \in 1 .. Len(l) :
              i < j => Deref(confs, l[i]).priority >= Deref(confs, l[j]).priority
  /\ \A s \in Slots :
       (RebuildReturned(s) /\ calls[s].conf # 0) =>
         \A i \in 1 .. Len(Configurations[calls[s].conf]) :
           LET d == Configurations[calls[s].conf][i] IN
           d.products # {} =>
             confs[providers_config.gen][d.name].priority =
               IF d.priority = NonePriority THEN 0 ELSE d.priority

\* rebuild returned for a configuration that declares B without priority
\* after A with priority 1: B has priority 0 in the store and comes after A
\* in the list of "optical".
C18_Witness ==
  \E s \in Slots :
    /\ RebuildReturned(s) /\ calls[s].conf # 0
    /\ \E i \in 1 .. Len(Configurations[calls[s].conf]) :
         LET d == Configurations[calls[s].conf][i] IN
         d.name = "B" /\ d.priority = NonePriority /\ d.products # {}
    /\ confs[providers_config.gen]["B"].priority = 0
    /\ "optical" \in DOMAIN product_type_to_provider_config_map
    /\ product_type_to_provider_config_map["optical"]
         = << Ref(providers_config.gen, "A"), Ref(providers_config.gen, "B") >>

\* C19: a resolution that came to _build_plugin for a capability whose type
\* is not registered for the topic ends with the error for an unknown plugin
\* type as the outcome of that call: no plugin is handed back and none is in
\* the cache under the key.
C19_UnknownTypeRaises ==
  \A s \in Slots :
    LET a == calls[s] IN
    (/\ a.pc \in {"returned", "yield"}
     /\ a.cap # "" /\ a.config # NoRef
     /\ a.key[1] = a.config.n
     /\ PluginConfOf(a, confs).type \notin RegisteredPlugins(TopicOf(a))) =>
      /\ a.pc = "returned"
      /\ a.ret = [kind |-> "error", id |-> NoPlugin, err |-> "UnknownPluginType"]
      /\ a.key \in CacheKeys(built_plugins_cache)
      /\ CacheGet(built_plugins_cache, a.key).id = NoPlugin

\* A search ended with the error for an unknown plugin type on a provider
\* whose api configuration names a type that is not registered.
C19_Witness ==
  \E s \in Slots :
    LET a == calls[s] IN
    /\ a.op = "get_search_plugins" /\ a.pc = "returned"
    /\ a.cap = "api" /\ a.key = << a.config.n, "Api" >>
    /\ PluginConfOf(a, confs).type \notin RegisteredPlugins("Api")
    /\ a.ret.err = "UnknownPluginType"
    /\ a.yielded = << >>

\* C20: every set_priority returns without raising.
C20_SetPriorityNeverRaises ==
  \A s \in Slots :
    (calls[s].op = "set_priority" /\ calls[s].pc = "returned") =>
      calls[s].ret.kind = "none"

\* C21: after a resolution failed in _build_plugin the cache has no entry
\* under the key it failed for.
C21_FailedBuildLeavesNoEntry ==
  \A s \in Slots :
    LET a == calls[s] IN
    (/\ a.pc = "returned"
     /\ a.ret.err = "UnknownPluginType"
     /\ a.op \in {"get_search_plugins", "get_download_plugin", "get_auth_plugin"}) =>
      a.key \notin CacheKeys(built_plugins_cache)

\* C22: when no rebuild is under way, every plugin in the cache was built
\* from a configuration object of the store.
C22_CacheBuiltFromStore ==
  Quiescent =>
    \A i \in 1 .. Len(built_plugins_cache) :
      built_plugins_cache[i].val.id # NoPlugin =>
        built_plugins_cache[i].val.gen = providers_config.gen

\* The providers of the store that list product type pt, as the index holds
\* them: references to the store's own ProviderConfig objects.
StoreListing(pt) ==
  { Ref(providers_config.gen, n) : n \in { m \in Range(providers_config.keys) :
        pt \in confs[providers_config.gen][m].products } }

\* C23: when no rebuild is under way, every list of the index holds exactly
\* the store's providers that list its product type, each once and as the
\* store's own object, so the priority read through the index is the one
\* read through the store, in order of non-increasing priority; and every
\* product type a provider of the store lists has a list.
C23_IndexConsistent ==
  LET idx == product_type_to_provider_config_map IN
  Quiescent =>
    /\ \A pt \in DOMAIN idx :
         /\ Range(idx[pt]) = StoreListing(pt)
         /\ Len(idx[pt]) = Cardinality(StoreListing(pt))
         /\ \A i, j \in 1 .. Len(idx[pt]) :
              i < j => Deref(confs, idx[pt][i]).priority
                         >= Deref(confs, idx[pt][j]).priority
    /\ \A n \in Range(providers_config.keys) :
         confs[providers_config.gen][n].products \subseteq DOMAIN idx

\* A set_priority has returned and the provider it named, registered second,
\* now stands first in a list of the index with a priority above the other's.
C23_Witness ==
  \E s \in Slots, pt \in DOMAIN product_type_to_provider_config_map :
    LET l == product_type_to_provider_config_map[pt] IN
    /\ SetPriorityReturned(s)
    /\ Len(l) = 2
    /\ l[1].n = calls[s].provider
    /\ providers_config.keys[2] = l[1].n
    /\ Deref(confs, l[1]).priority > Deref(confs, l[2]).priority

\* The configurations in the lists of index idx that have the name provider.
Indexed(idx, cf, provider) ==
  { r \in UNION { Range(idx[pt]) : pt \in DOMAIN idx } : Deref(cf, r).name = provider }

\* C24: set_priority(X, p) changes nothing but the priority of X and the
\* place of X.  Its first part (lines 306-314) leaves the store and the cache
\* alone, keeps the members of every list of the index and the order of
\* every two members that are not X, and changes no field of any
\* configuration but the priority of X; its second part (316-318) leaves
\* store, configurations and index alone, keeps the keys of the cache and
\* the plugin under each, and changes the priority of no plugin of another
\* provider.  For a name that is in no list of the index both parts change
\* nothing and the call returns without raising.
C24_SetPriorityFrame ==
  [][\A s \in Slots :
       LET idx == product_type_to_provider_config_map
           X == calls'[s].provider
       IN
       /\ (calls[s].pc # "set_priority_316" /\ calls'[s].pc = "set_priority_316") =>
            /\ UNCHANGED << providers_config, built_plugins_cache, constructed >>
            /\ DOMAIN idx' = DOMAIN idx
            /\ DOMAIN confs' = DOMAIN confs
            /\ \A pt \in DOMAIN idx :
                 /\ Range(idx'[pt]) = Range(idx[pt])
                 /\ Len(idx'[pt]) = Len(idx[pt])
                 /\ \A q, r \in Range(idx[pt]) :
                      (/\ q.n # X /\ r.n # X
                       /\ IndexOf(idx[pt], q) < IndexOf(idx[pt], r)) =>
                        IndexOf(idx'[pt], q) < IndexOf(idx'[pt], r)
            /\ \A g \in DOMAIN confs : \A n \in DOMAIN confs[g] :
                 /\ n # X => confs'[g][n] = confs[g][n]
                 /\ confs'[g][n] = [confs[g][n] EXCEPT !.priority = confs'[g][n].priority]
            /\ Indexed(idx, confs, X) = {} => UNCHANGED << confs, idx >>
       /\ (calls[s].pc = "set_priority_316" /\ calls'[s].pc = "returned") =>
            /\ UNCHANGED << providers_config, confs, idx, constructed >>
            /\ Len(built_plugins_cache') = Len(built_plugins_cache)
            /\ \A i \in 1 .. Len(built_plugins_cache) :
                 LET old == built_plugins_cache[i]
                     new == built_plugins_cache'[i]
                 IN /\ new.key = old.key
                    /\ new.val.id = old.val.id
                    /\ new.val.gen = old.val.gen
                    /\ old.key[1] # X => new = old
            /\ Indexed(idx, confs, X) = {} =>
                 /\ UNCHANGED built_plugins_cache
                 /\ calls'[s].ret.kind = "none"]_vars

\* set_priority(X, p) has returned; X shares a list of the index with
\* another provider, and the cache holds a plugin of X with priority p next
\* to a plugin of that other provider with another priority.
C24_Witness ==
  \E s \in Slots, pt \in DOMAIN product_type_to_provider_config_map :
    LET l == product_type_to_provider_config_map[pt]
        X == calls[s].provider
    IN /\ SetPriorityReturned(s)
       /\ \E q, r \in Range(l) : q.n = X /\ r.n # X
       /\ \E i, j \in 1 .. Len(built_plugins_cache) :
            LET e == built_plugins_cache[i]
                o == built_plugins_cache[j]
            IN /\ e.key[1] = X /\ e.val.id # NoPlugin
               /\ e.val.priority = calls[s].priority
               /\ o.key[1] # X /\ o.val.id # NoPlugin
               /\ o.val.priority # calls[s].priority

\* The other case of C24: set_priority was called with a name that no list
\* of the index holds and has returned, the cache holding a plugin.
C24_WitnessUnknownName ==
  \E s \in Slots :
    /\ SetPriorityReturned(s)
    /\ Indexed(product_type_to_provider_config_map, confs, calls[s].provider) = {}
    /\ \E i \in 1 .. Len(built_plugins_cache) : built_plugins_cache[i].val.id # NoPlugin

\* The operations that resolve a plugin through _build_plugin.
Resolutions == {"get_search_plugins", "get_download_plugin", "get_auth_plugin"}

\* What the assignments of lines 189-190, 193-194, 239, 245-246 and 270
\* leave in capability cap of configuration r.
Propagated(cf, r, cap) ==
  LET c == Deref(cf, r) IN
  /\ c[cap].priority = c.priority
  /\ cap \in {"search", "api"} => c[cap].products = c.products

\* Configuration r has been resolved for capability cap under key: its
\* fields are propagated and the cache holds the plugin, or None when the
\* type configured is not registered.
Resolved(cf, cache, r, cap, key) ==
  /\ Propagated(cf, r, cap)
  /\ key \in CacheKeys(cache)
  /\ \/ CacheGet(cache, key).id # NoPlugin
     \/ Deref(cf, r)[cap].type \notin RegisteredPlugins(key[2])

\* Record a is at a capability of the configuration it names.
Targets(a) == a.cap # "" /\ a.config # NoRef /\ a.key[1] = a.config.n

\* C25: a resolution never changes store or index; once a configuration has
\* been resolved, a step of a resolution of it changes neither the
\* configurations nor the cache and constructs nothing, and a step that
\* finds a plugin in the cache hands that plugin back; and when a resolution
\* has handed back a plugin or has ended, every configuration it went
\* through is resolved, its capability carrying the provider's priority.  So
\* the same resolution made again changes nothing.
C25_ResolutionIdempotent ==
  /\ [][\A s \in Slots :
          LET a == calls[s]
              b == calls'[s]
          IN (b.op \in Resolutions /\ b # a /\ b.pc # "idle") =>
               /\ UNCHANGED << providers_config, product_type_to_provider_config_map >>
               /\ ~Targets(b) =>
                    UNCHANGED << confs, built_plugins_cache, constructed >>
               /\ (Targets(b)
                     /\ Resolved(confs, built_plugins_cache, b.config, b.cap, b.key)) =>
                    UNCHANGED << confs, built_plugins_cache, constructed >>
               /\ (a.pc = "build_341" /\ a.key \in CacheKeys(built_plugins_cache)
                     /\ CacheGet(built_plugins_cache, a.key).id # NoPlugin) =>
                    /\ b.ret.kind = "plugin"
                    /\ b.ret.id = CacheGet(built_plugins_cache, a.key).id
                    /\ UNCHANGED << confs, built_plugins_cache, constructed >>]_vars
  /\ [](\A s \in Slots :
          LET a == calls[s] IN
          (a.op \in Resolutions /\ a.pc \in {"yield", "returned"}) =>
            /\ Targets(a) =>
                 Resolved(confs, built_plugins_cache, a.config, a.cap, a.key)
            /\ \A r \in Range(a.yielded) :
                 /\ Resolved(confs, built_plugins_cache, r,
                             SearchCap(Deref(confs, r)), SearchKey(r))
                 /\ CacheGet(built_plugins_cache, SearchKey(r)).id # NoPlugin)

\* A get_search_plugins has yielded its second plugin, both taken from the
\* cache where an earlier resolution left them.
C25_Witness ==
  \E s \in Slots :
    LET a == calls[s] IN
    /\ a.op = "get_search_plugins"
    /\ a.pc = "yield"
    /\ CacheHit(s)
    /\ Len(a.yielded) = 2
    /\ Len(constructed) = 2
    /\ \A r \in Range(a.yielded) : ConstructedFor(SearchKey(r)) # {}
    /\ Len(built_plugins_cache) = 2
    /\ built_plugins_cache[1].key = SearchKey(a.yielded[1])

\* The generator in record a failed at a candidate: get_plugin found neither
\* capability, or _build_plugin no class for the type configured.
FailedAtCandidate(a) ==
  /\ a.op = "get_search_plugins"
  /\ a.pc = "returned"
  /\ a.ret.kind = "error"
  /\ a.ret.err \in {"MisconfiguredError", "UnknownPluginType"}

\* The candidate the generator in record a is at cannot be given a plugin.
Unbuildable(a) ==
  LET c == Deref(confs, a.config) IN
  \/ SearchCap(c) = ""
  \/ c[SearchCap(c)].type \notin RegisteredPlugins(SearchKey(a.config)[2])

\* C26: a generator that has gone through a candidate it cannot build a
\* plugin for has ended with the error, and goes no further.  When it ended
\* so at its i-th candidate, it had yielded the i-1 candidates before it, in
\* order, their plugins are in the cache, and the candidates after the i-th
\* are still in its list, not taken.
C26_FailureEndsIteration ==
  \A s \in Slots :
    LET a == calls[s]
        i == Len(a.yielded) + 1
        k == Len(a.cands)
    IN /\ (a.op = "get_search_plugins" /\ a.pc \in {"yield", "returned"}
             /\ a.config # NoRef /\ Unbuildable(a)) => FailedAtCandidate(a)
       /\ FailedAtCandidate(a) =>
            /\ i <= k
            /\ a.config = a.cands[i].ref
            /\ Unbuildable(a)
            /\ a.yielded = [j \in 1 .. i - 1 |-> a.cands[j].ref]
            /\ \A j \in 1 .. i - 1 :
                 /\ SearchKey(a.cands[j].ref) \in CacheKeys(built_plugins_cache)
                 /\ CacheGet(built_plugins_cache, SearchKey(a.cands[j].ref)).id # NoPlugin
            /\ a.configs = [j \in 1 .. k - i |-> a.cands[i + j].ref]

\* A generator failed at the first of two candidates: nothing was yielded,
\* the second candidate is still in its list and the cache has no entry for
\* it.
C26_Witness ==
  \E s \in Slots :
    LET a == calls[s] IN
    /\ FailedAtCandidate(a)
    /\ a.ret.err = "MisconfiguredError"
    /\ Len(a.cands) = 2
    /\ a.yielded = << >>
    /\ Len(a.configs) = 1
    /\ a.cands[1].priority > a.cands[2].priority
    /\ SearchKey(a.configs[1]) \notin CacheKeys(built_plugins_cache)

\* The other place: a generator failed at the second of two candidates, the
\* plugin of the first one yielded and in the cache.
C26_WitnessSecond ==
  \E s \in Slots :
    LET a == calls[s] IN
    /\ FailedAtCandidate(a)
    /\ Len(a.cands) = 2
    /\ Len(a.yielded) = 1
    /\ CacheGet(built_plugins_cache, SearchKey(a.yielded[1])).id # NoPlugin

\* The generator in record a came to its end without an error.
Exhausted(a) ==
  /\ a.op = "get_search_plugins"
  /\ a.pc = "returned"
  /\ a.ret.kind = "stop"

\* C27: a get_search_plugins called with a provider or group name, or with
\* neither product type nor provider, yields plugins only for matching
\* configurations (those of the product type, or all of the store when none
\* is given, whose name or group is the one given), no configuration twice,
\* in order of non-increasing priority; run to its end it has yielded one
\* for every matching configuration; and it ends with UnsupportedProvider
\* only when no configuration matches.
C27_OnePluginPerMatch ==
  \A s \in Slots :
    LET a == calls[s] IN
    (a.op = "get_search_plugins" /\ (a.provider # "" \/ a.product_type = "")) =>
      /\ a.yielded # << >> =>
           /\ Range(a.yielded) \subseteq Matching(a)
           /\ \A i, j \in 1 .. Len(a.yielded) :
                i < j => /\ a.yielded[i] # a.yielded[j]
                         /\ Deref(confs, a.yielded[i]).priority
                              >= Deref(confs, a.yielded[j]).priority
      /\ Exhausted(a) =>
           /\ Range(a.yielded) = Matching(a)
           /\ Len(a.yielded) = Cardinality(Matching(a))
      /\ (a.pc = "returned"
            /\ a.ret.err \in {"UnsupportedProvider",
                              "UnsupportedProvider for product type"}) =>
           Matching(a) = {}

\* A get_search_plugins for a product type and a group came to its end: it
\* yielded the provider of that group and not the other provider of the
\* product type.
C27_Witness ==
  \E s \in Slots :
    LET a == calls[s] IN
    /\ Exhausted(a)
    /\ a.product_type # "" /\ a.provider # ""
    /\ Len(a.yielded) = 1
    /\ Deref(confs, a.yielded[1]).group = a.provider
    /\ a.product_type \in DOMAIN product_type_to_provider_config_map
    /\ Len(product_type_to_provider_config_map[a.product_type]) = 2

\* The other case: a get_search_plugins without arguments came to its end
\* with one plugin for each of the two providers of the store.
C27_WitnessNoArguments ==
  \E s \in Slots :
    LET a == calls[s] IN
    /\ Exhausted(a)
    /\ a.product_type = "" /\ a.provider = ""
    /\ Len(a.yielded) = 2
    /\ Len(providers_config.keys) = 2

\* Record a asks for a product type that has a list in the index, not
\* empty, and for a provider or group that no configuration of that list
\* has.
ProviderNotOfType(a) ==
  LET idx == product_type_to_provider_config_map IN
  /\ a.op = "get_search_plugins"
  /\ a.product_type \in DOMAIN idx
  /\ idx[a.product_type] # << >>
  /\ a.provider # ""
  /\ \A r \in Range(idx[a.product_type]) :
       a.provider \notin {Deref(confs, r).group, Deref(confs, r).name}

\* C28: a get_search_plugins for a product type that has a list in the
\* index takes its candidates from that list only; when the provider asked
\* for is not in it, the first advance raises UnsupportedProvider for the
\* product type and nothing is yielded, whether or not the generic product
\* type lists that provider.
C28_NoFallbackForIndexedType ==
  \A s \in Slots :
    LET a == calls[s]
        idx == product_type_to_provider_config_map
    IN /\ (a.op = "get_search_plugins" /\ a.pc # "created"
             /\ a.product_type \in DOMAIN idx /\ idx[a.product_type] # << >>) =>
            { a.cands[i].ref : i \in 1 .. Len(a.cands) } \subseteq Range(idx[a.product_type])
       /\ (ProviderNotOfType(a) /\ a.pc # "created") =>
            /\ a.pc = "returned"
            /\ a.ret.kind = "error"
            /\ a.ret.err = "UnsupportedProvider for product type"
            /\ a.cands = << >>
            /\ a.yielded = << >>

\* A get_search_plugins raised UnsupportedProvider for a product type the
\* index has a list for, asked for a provider that the generic product type
\* lists.
C28_Witness ==
  \E s \in Slots :
    LET a == calls[s]
        idx == product_type_to_provider_config_map
    IN /\ ProviderNotOfType(a)
       /\ a.pc = "returned"
       /\ a.ret.err = "UnsupportedProvider for product type"
       /\ GENERIC_PRODUCT_TYPE \in DOMAIN idx
       /\ \E r \in Range(idx[GENERIC_PRODUCT_TYPE]) :
            a.provider \in {Deref(confs, r).group, Deref(confs, r).name}

\* C29: the step in which a get_search_plugins ends with UnsupportedProvider
\* and the step in which a get_download_plugin ends with MisconfiguredError
\* change neither the store with its configurations, nor the index, nor the
\* cache, and construct nothing; nor does the call of get_search_plugins
\* that created the generator.
C29_RejectedCallsChangeNothing ==
  [][\A s \in Slots :
       LET a == calls[s]
           b == calls'[s]
       IN ((/\ a.pc # "returned" /\ b.pc = "returned"
            /\ \/ /\ b.op = "get_search_plugins"
                  /\ b.ret.err \in {"UnsupportedProvider",
                                    "UnsupportedProvider for product type"}
               \/ /\ b.op = "get_download_plugin"
                  /\ b.ret.err = "MisconfiguredError")
           \/ (a.pc # "created" /\ b.pc = "created")) =>
            UNCHANGED << providers_config, confs, product_type_to_provider_config_map,
                         built_plugins_cache, constructed >>]_vars

\* A get_search_plugins ended with UnsupportedProvider for a product type
\* that the index has no list for, the cache holding a plugin.
C29_Witness ==
  \E s \in Slots :
    LET a == calls[s] IN
    /\ a.op = "get_search_plugins"
    /\ a.pc = "returned"
    /\ a.ret.err = "UnsupportedProvider for product type"
    /\ a.product_type \notin DOMAIN product_type_to_provider_config_map
    /\ \E i \in 1 .. Len(built_plugins_cache) : built_plugins_cache[i].val.id # NoPlugin

\* The other call of C29: a get_download_plugin ended with
\* MisconfiguredError, the cache holding a plugin.
C29_WitnessDownload ==
  \E s \in Slots :
    LET a == calls[s] IN
    /\ a.op = "get_download_plugin"
    /\ a.pc = "returned"
    /\ a.ret.err = "MisconfiguredError"
    /\ \E i \in 1 .. Len(built_plugins_cache) : built_plugins_cache[i].val.id # NoPlugin

\* A provider configured with 'api' and with neither 'search' nor
\* 'download'.
ApiOnly(c) == c.api.present /\ ~c.search.present /\ ~c.download.present

\* C30: for a provider that has 'api' and neither 'search' nor 'download',
\* get_search_plugins and get_download_plugin both go to _build_plugin with
\* the key (provider, Api); the plugin either hands back is the one the
\* cache holds under that key, the only one constructed for it since the
\* cache was last reset; and for no such provider more than one was
\* constructed since.
C30_ApiOnlySharesInstance ==
  /\ \A s \in Slots :
       LET a == calls[s] IN
       (/\ a.op \in {"get_search_plugins", "get_download_plugin"}
        /\ Targets(a)
        /\ ApiOnly(Deref(confs, a.config))) =>
         /\ a.cap = "api"
         /\ a.key = << a.config.n, "Api" >>
         /\ Handed(s) =>
              /\ a.key \in CacheKeys(built_plugins_cache)
              /\ CacheGet(built_plugins_cache, a.key).id = a.ret.id
              /\ \A i \in ConstructedFor(a.key) : constructed[i].id = a.ret.id
              /\ Cardinality(ConstructedFor(a.key)) = 1
  /\ \A n \in Range(providers_config.keys) :
       ApiOnly(confs[providers_config.gen][n]) =>
         Cardinality(ConstructedFor(<< n, "Api" >>)) <= 1

\* get_download_plugin for a provider with 'api' only was handed the plugin
\* that an earlier call had left in the cache under (provider, Api).
C30_Witness ==
  \E s \in Slots :
    LET a == calls[s] IN
    /\ a.op = "get_download_plugin"
    /\ CacheHit(s)
    /\ ApiOnly(Deref(confs, a.config))
    /\ a.key = << a.config.n, "Api" >>

\* The other order: get_search_plugins yielded, for a provider with 'api'
\* only, the plugin an earlier call had left in the cache.
C30_WitnessSearch ==
  \E s \in Slots :
    LET a == calls[s] IN
    /\ a.op = "get_search_plugins"
    /\ a.pc = "yield"
    /\ CacheHit(s)
    /\ ApiOnly(Deref(confs, a.config))
    /\ a.key = << a.config.n, "Api" >>

\* The configurations of a sequence of candidates, in its order.
Refs(cands) == [i \in 1 .. Len(cands) |-> cands[i].ref]

\* The generator in record a has made its first advance and has candidates.
Iterating(a) ==
  /\ a.op = "get_search_plugins"
  /\ a.pc \notin {"idle", "created"}
  /\ a.cands # << >>

\* C31: the sequence of get_search_plugins is lazy and finite.  Creating it
\* changes nothing and raises nothing.  Its first advance takes the
\* candidates and their order from the state it finds then.  From then on
\* the sequence of candidates stays as it is; what the generator has yielded
\* is the beginning of it and what it has still to go through is the end of
\* it, in that order, at most one candidate between the two, whatever
\* set_priority did to the priorities meanwhile.  Every later advance takes
\* one candidate off what is left or, with nothing left, ends the sequence.
C31_LazyAndFinite ==
  /\ [][\A s \in Slots :
          LET a == calls[s]
              b == calls'[s]
              idx == product_type_to_provider_config_map
          IN /\ (a.pc = "idle" /\ b.op = "get_search_plugins") =>
                  /\ b.pc = "created"
                  /\ b.ret = NoRet
                  /\ b.cands = << >> /\ b.configs = << >> /\ b.yielded = << >>
                  /\ UNCHANGED << providers_config, confs, idx,
                                  built_plugins_cache, constructed >>
             /\ (a.pc = "created" /\ b.pc = "search_225") =>
                  /\ Refs(b.cands) =
                       SortByPriority(Candidates(a.product_type, a.provider, idx,
                                                 providers_config, confs), confs)
                  /\ b.configs = Refs(b.cands)
                  /\ \A i \in 1 .. Len(b.cands) :
                       b.cands[i].priority = Deref(confs, b.cands[i].ref).priority
             /\ (Iterating(a) /\ b.pc # "idle") => b.cands = a.cands
             /\ (Iterating(a) /\ a.pc \in {"search_225", "yield"}
                   /\ b # a /\ b.pc # "idle") =>
                  \/ a.configs = << >> /\ Exhausted(b)
                  \/ a.configs # << >> /\ b.configs = Tail(a.configs)
                       /\ b.config = Head(a.configs)]_vars
  /\ [](\A s \in Slots :
          LET a == calls[s]
              k == Len(a.cands)
              n == Len(a.yielded)
              m == Len(a.configs)
          IN Iterating(a) =>
               /\ n + m <= k
               /\ k <= n + m + 1
               /\ a.yielded = SubSeq(Refs(a.cands), 1, n)
               /\ a.configs = SubSeq(Refs(a.cands), k - m + 1, k)
               /\ \A i, j \in 1 .. k : i < j => a.cands[i].ref # a.cands[j].ref)

\* A generator has yielded two plugins in the order it fixed at its first
\* advance, the first candidate having had the higher priority then, while
\* a set_priority made between its two advances has given the second the
\* higher priority and the first place in the list of the index.  That the
\* set_priority came before the second advance shows in the capability of
\* the second candidate: get_plugin copied the new priority into it, and the
\* generator and the set_priority are the only calls made.
C31_Witness ==
  \E s \in Slots :
    LET a == calls[s]
        idx == product_type_to_provider_config_map
    IN /\ Iterating(a)
       /\ started = 2
       /\ a.product_type \in DOMAIN idx
       /\ Len(a.yielded) = 2
       /\ a.cands[1].priority > a.cands[2].priority
       /\ Deref(confs, a.yielded[1]).priority < Deref(confs, a.yielded[2]).priority
       /\ Deref(confs, a.yielded[2])[SearchCap(Deref(confs, a.yielded[2]))].priority
            = Deref(confs, a.yielded[2]).priority
       /\ idx[a.product_type] = << a.yielded[2], a.yielded[1] >>

\* Laziness: a generator created for a product type waits for its first
\* advance while a set_priority, called after it was created, has returned
\* and has put the provider registered second first in the list of that
\* product type.
C31_WitnessBeforeFirstAdvance ==
  \E s, t \in Slots :
    LET a == calls[s]
        idx == product_type_to_provider_config_map
    IN /\ a.op = "get_search_plugins" /\ a.pc = "created"
       /\ SetPriorityReturned(t)
       /\ a.product_type \in DOMAIN idx
       /\ Len(idx[a.product_type]) = 2
       /\ Len(providers_config.keys) = 2
       /\ idx[a.product_type][1].n = providers_config.keys[2]
       /\ idx[a.product_type][1].n = calls[t].provider

====
